---- MODULE Spec2Model ----
(***************************************************************************)
(* Model of ms-tutorias/src/domain/services/tutoria.service.js: the saga   *)
(* solicitarTutoria and its helper track.                                  *)
(*                                                                         *)
(* One invocation of solicitarTutoria is a JavaScript async function: the  *)
(* code between two awaits runs to completion, so every action below is    *)
(* one such segment, from the return of the awaited collaborator call to   *)
(* the next await (or to the end of the invocation).  The collaborators    *)
(* (usuariosClient, agendaClient, tutoriaRepository, publishToQueue,       *)
(* publishTrackingEvent) are the environment: their results are inputs.    *)
(***************************************************************************)
EXTENDS Naturals, Sequences, FiniteSets

\* The invocations of solicitarTutoria that may run concurrently.  Every one
\* of them requests the same tutor, start date and duration.
Invs == {"s1", "s2"}

Undefined == "<undefined>"   \* the JavaScript value undefined
Null == "<null>"             \* the JavaScript value null
NoStatusCode == 0            \* an error object without a (truthy) statusCode
NoTutoria == 0               \* nuevaTutoria not assigned (let nuevaTutoria;)

EMISOR == "publishTrackingEvent"
APP == "solicitarTutoria"

VARIABLES
    sagas,      \* per invocation: the local state of solicitarTutoria
    agenda,     \* ms-agenda: is the requested slot locked, and by whom
    tutorias    \* the repository: the sequence of records, idtutoria = index

vars == <<sagas, agenda, tutorias>>

-----------------------------------------------------------------------------
\* Error objects.  origin is not a field of the JavaScript object: it records
\* which call raised the error.

Err(o, m, c) == [origin |-> o, message |-> m, statusCode |-> c]

\* The errors a collaborator call can raise: a plain Error, an error object
\* that carries its own statusCode, and an object without a message.
ErroresDe(o) == {Err(o, o, NoStatusCode), Err(o, o, 503), Err(o, Undefined, NoStatusCode)}

EstudianteNoEncontrado == Err(APP, "Estudiante no encontrado", 404)
TutorNoEncontrado == Err(APP, "Tutor no encontrado", 404)
HorarioNoDisponible == Err(APP, "Horario no disponible", 409)

\* `${error.message}` in a template literal.
Interpolar(m) == IF m = Undefined THEN "undefined" ELSE m

\* error.statusCode || 500
StatusCodeOr500(c) == IF c = NoStatusCode THEN 500 ELSE c

\* What an invocation ends with.
SinResultado == [kind |-> "none", statusCode |-> NoStatusCode, prefix |-> "",
                 message |-> Undefined, tutoria |-> NoTutoria, estado |-> Undefined]

\* throw { statusCode: error.statusCode || 500,
\*         message: `No se pudo completar la solicitud: ${error.message}` }
ErrorFinal(error) ==
    [kind |-> "throw", statusCode |-> StatusCodeOr500(error.statusCode),
     prefix |-> "No se pudo completar la solicitud: ",
     message |-> Interpolar(error.message), tutoria |-> NoTutoria, estado |-> Undefined]

\* An exception that leaves solicitarTutoria unwrapped (raised inside the
\* catch block, outside its inner try blocks).
ErrorCrudo(e) ==
    [kind |-> "throw", statusCode |-> e.statusCode, prefix |-> "",
     message |-> e.message, tutoria |-> NoTutoria, estado |-> Undefined]

\* return tutoriaConfirmada
Retorno(id, estado) ==
    [kind |-> "return", statusCode |-> NoStatusCode, prefix |-> "",
     message |-> Undefined, tutoria |-> id, estado |-> estado]

-----------------------------------------------------------------------------
\* The local state of one invocation.
SagaInicial ==
    [pc |-> "idle",             \* the await the invocation is suspended at
     estudiante |-> "none",     \* getUsuario('estudiantes'): none, pending, user, null, rejected
     tutor |-> "none",          \* getUsuario('tutores')
     disponible |-> "none",     \* verificarDisponibilidad: none, true, false
     nuevaTutoria |-> NoTutoria,
     error |-> Err(APP, Undefined, NoStatusCode),   \* the error caught at line 112
     failStep |-> 0,            \* section (1..6) of the try block that threw, 0: none
     calls |-> <<>>,            \* collaborator calls made, in order
     infoEvents |-> 0,          \* track(..., 'INFO') calls that returned
     errorEvents |-> 0,         \* track(..., 'ERROR') calls that returned
     fallos |-> {},             \* collaborator calls that failed
     bloqueoPropio |-> FALSE,   \* bloquearAgenda of this invocation succeeded
     result |-> SinResultado]

Init ==
    /\ sagas = [i \in Invs |-> SagaInicial]
    /\ agenda \in {[bloqueado |-> FALSE, titular |-> "nadie"],
                   [bloqueado |-> TRUE, titular |-> "externo"]}
    /\ tutorias = <<>>

-----------------------------------------------------------------------------
\* track: publishTrackingEvent is called and its result is not used; track has
\* no try/catch, so an exception of publishTrackingEvent leaves track.
\* An emission is an input: the index, among the n track calls of a segment,
\* of the call in which publishTrackingEvent throws (0: none does).  A failure
\* that publishTrackingEvent keeps to itself is not visible to this code.
Emisiones(n) == 0..n

ErrorEmisor == Err(EMISOR, EMISOR, NoStatusCode)

\* track with the default of its status parameter (line 8) mistaken.
trackSinInfo(s, status, n) == [s EXCEPT !.errorEvents = @ + n]

\* n track calls with the given status returned.
track(s, status, n) ==
    IF status = "INFO" THEN [s EXCEPT !.infoEvents = @ + n]
                       ELSE [s EXCEPT !.errorEvents = @ + n]

Perdida(s, em) ==
    IF em > 0 THEN [s EXCEPT !.fallos = @ \cup {EMISOR}] ELSE s

Llamar(s, nombre, pc) == [s EXCEPT !.calls = Append(@, nombre), !.pc = pc]

Terminar(s, r) == [s EXCEPT !.pc = "done", !.result = r]

\* Lines 112-130: catch (error), the two track calls and the call of
\* cancelarBloqueo, which is made whatever step failed.
Catch(s, e, step, em) ==
    LET s1 == Perdida([s EXCEPT !.error = e, !.failStep = step,
                                !.fallos = IF e.origin = APP THEN @ ELSE @ \cup {e.origin}], em)
    IN IF em = 0
       THEN Llamar(track(s1, "ERROR", 2), "cancelarBloqueo", "unlock")
       ELSE Terminar(track(s1, "ERROR", em - 1), ErrorCrudo(ErrorEmisor))

\* A forward segment of the try block: the track calls of sections secs
\* (one entry per call), then the next collaborator call.
Avanzar(s, secs, nombre, pc, em, emc) ==
    IF em = 0
    THEN Llamar(Perdida(track(s, "INFO", Len(secs)), em), nombre, pc)
    ELSE Catch(track(s, "INFO", em - 1), ErrorEmisor, secs[em], emc)

-----------------------------------------------------------------------------
\* try { await X; track(done) } catch (e2) { track(critical) }: the inner try
\* blocks of the catch block (lines 122-140 and 148-163).  ok: the awaited
\* call succeeded; t1: publishTrackingEvent throws in the track of the try
\* block; t2: it throws in the track of the inner catch block, which nothing
\* catches.  The result tells whether an exception leaves the statement.
TryTrack(s, ok, t1, t2) ==
    LET s1 == IF ok /\ t1 THEN [s EXCEPT !.fallos = @ \cup {EMISOR}] ELSE s
    IN IF ok /\ ~t1
       THEN [s |-> track(s1, "ERROR", 1), raised |-> FALSE]
       ELSE IF t2
            THEN [s |-> [s1 EXCEPT !.fallos = @ \cup {EMISOR}], raised |-> TRUE]
            ELSE [s |-> track(s1, "ERROR", 1), raised |-> FALSE]

-----------------------------------------------------------------------------
\* Lines 18-31: track('Validando usuarios...') and the two getUsuario calls.
Solicitar(i) ==
    LET s == sagas[i] IN
    /\ s.pc = "idle"
    /\ \E em \in Emisiones(1), emc \in Emisiones(2) :
         sagas' = [sagas EXCEPT ![i] =
            IF em = 0
            THEN [Llamar(Llamar(Perdida(track(s, "INFO", 1), em),
                                "getUsuario:estudiantes", "lookup"),
                         "getUsuario:tutores", "lookup")
                    EXCEPT !.estudiante = "pending", !.tutor = "pending"]
            ELSE Catch(s, ErrorEmisor, 1, emc)]
    /\ UNCHANGED <<agenda, tutorias>>

Otro(quien) == IF quien = "estudiante" THEN "tutor" ELSE "estudiante"

NombreGetUsuario(quien) ==
    IF quien = "estudiante" THEN "getUsuario:estudiantes" ELSE "getUsuario:tutores"

\* GetUsuarioResuelve without the check of line 34 (if (!tutor) throw ...).
GetUsuarioResuelveSinTutor(i, quien) ==
    LET s == sagas[i] IN
    /\ s[quien] = "pending"
    /\ \E val \in {"user", "null"}, em \in Emisiones(2), emc \in Emisiones(2) :
         LET s1 == [s EXCEPT ![quien] = val] IN
         sagas' = [sagas EXCEPT ![i] =
            IF s.pc # "lookup" \/ s1[Otro(quien)] = "pending" THEN s1
            ELSE IF s1.estudiante = "null" THEN Catch(s1, EstudianteNoEncontrado, 1, emc)
            ELSE Avanzar(s1, <<1, 2>>, "verificarDisponibilidad", "avail", em, emc)]
    /\ UNCHANGED <<agenda, tutorias>>

\* GetUsuarioResuelve with Promise.race in the place of Promise.all: the
\* first lookup that resolves lets the invocation go on.
GetUsuarioResuelveRace(i, quien) ==
    LET s == sagas[i] IN
    /\ s[quien] = "pending"
    /\ \E val \in {"user", "null"}, em \in Emisiones(2), emc \in Emisiones(2) :
         LET s1 == [s EXCEPT ![quien] = val] IN
         sagas' = [sagas EXCEPT ![i] =
            IF s.pc # "lookup" THEN s1
            ELSE IF s1.estudiante = "null" THEN Catch(s1, EstudianteNoEncontrado, 1, emc)
            ELSE IF s1.tutor = "null" THEN Catch(s1, TutorNoEncontrado, 1, emc)
            ELSE Avanzar(s1, <<1, 2>>, "verificarDisponibilidad", "avail", em, emc)]
    /\ UNCHANGED <<agenda, tutorias>>

\* Lines 28-42: a getUsuario call resolves, with a user or with nothing.
\* Promise.all resolves once both calls resolved; then the two checks, two
\* track calls and the call of verificarDisponibilidad.  After Promise.all
\* rejected, the result of the other call is dropped.
GetUsuarioResuelve(i, quien) ==
    LET s == sagas[i] IN
    /\ s[quien] = "pending"
    /\ \E val \in {"user", "null"}, em \in Emisiones(2), emc \in Emisiones(2) :
         LET s1 == [s EXCEPT ![quien] = val] IN
         sagas' = [sagas EXCEPT ![i] =
            IF s.pc # "lookup" \/ s1[Otro(quien)] = "pending" THEN s1
            ELSE IF s1.estudiante = "null" THEN Catch(s1, EstudianteNoEncontrado, 1, emc)
            ELSE IF s1.tutor = "null" THEN Catch(s1, TutorNoEncontrado, 1, emc)
            ELSE Avanzar(s1, <<1, 2>>, "verificarDisponibilidad", "avail", em, emc)]
    /\ UNCHANGED <<agenda, tutorias>>

\* Lines 28-31, 112: a getUsuario call rejects.  Promise.all rejects with the
\* first rejection, without waiting for the other call.
GetUsuarioRechaza(i, quien) ==
    LET s == sagas[i] IN
    /\ s[quien] = "pending"
    /\ \E e \in ErroresDe(NombreGetUsuario(quien)), emc \in Emisiones(2) :
         LET s1 == [s EXCEPT ![quien] = "rejected"] IN
         sagas' = [sagas EXCEPT ![i] =
            IF s.pc = "lookup" THEN Catch(s1, e, 1, emc)
            ELSE [s1 EXCEPT !.fallos = @ \cup {e.origin}]]
    /\ UNCHANGED <<agenda, tutorias>>

\* Lines 42-60: verificarDisponibilidad resolves: the slot is available when
\* it is not locked.
VerificarDisponibilidadResuelve(i) ==
    LET s == sagas[i] IN
    /\ s.pc = "avail"
    /\ \E em \in Emisiones(2), emc \in Emisiones(2) :
         sagas' = [sagas EXCEPT ![i] =
            IF agenda.bloqueado
            THEN Catch([s EXCEPT !.disponible = "false"], HorarioNoDisponible, 2, emc)
            ELSE Avanzar([s EXCEPT !.disponible = "true"], <<2, 3>>,
                         "save:PENDIENTE", "create", em, emc)]
    /\ UNCHANGED <<agenda, tutorias>>

VerificarDisponibilidadRechaza(i) ==
    LET s == sagas[i] IN
    /\ s.pc = "avail"
    /\ \E e \in ErroresDe("verificarDisponibilidad"), emc \in Emisiones(2) :
         sagas' = [sagas EXCEPT ![i] = Catch(s, e, 2, emc)]
    /\ UNCHANGED <<agenda, tutorias>>

\* The repository: save without idTutoria creates a record, save with
\* idTutoria updates estado and error of that record.  historial is the
\* sequence of estados the saves gave the record.
Crear(estado) == [estado |-> estado, error |-> Null, historial |-> <<estado>>]

Actualizar(id, estado, error) ==
    [tutorias EXCEPT ![id] = [estado |-> estado, error |-> error,
                              historial |-> Append(@.historial, estado)]]

\* Lines 60-75: the save of the PENDIENTE record resolves.
SavePendienteResuelve(i) ==
    LET s == sagas[i] IN
    /\ s.pc = "create"
    /\ tutorias' = Append(tutorias, Crear("PENDIENTE"))
    /\ \E em \in Emisiones(2), emc \in Emisiones(2) :
         sagas' = [sagas EXCEPT ![i] =
            Avanzar([s EXCEPT !.nuevaTutoria = Len(tutorias) + 1], <<3, 4>>,
                    "bloquearAgenda", "lock", em, emc)]
    /\ UNCHANGED agenda

SavePendienteRechaza(i) ==
    LET s == sagas[i] IN
    /\ s.pc = "create"
    /\ \E e \in ErroresDe("save:PENDIENTE"), emc \in Emisiones(2) :
         sagas' = [sagas EXCEPT ![i] = Catch(s, e, 3, emc)]
    /\ UNCHANGED <<agenda, tutorias>>

\* Lines 75-106, after bloquearAgenda resolved: track, track, publishToQueue
\* (not awaited, not guarded), track, track and the call of the CONFIRMADA
\* save.  pub: publishToQueue returns ("ok"), returns although the message
\* was not published ("lost"), or throws ("throws", with error ep).
Publicar(s, em, pub, ep, emc) ==
    IF em \in 1..2
    THEN Catch(track(s, "INFO", em - 1), ErrorEmisor, <<4, 5>>[em], emc)
    ELSE LET s1 == Llamar(track(s, "INFO", 2), "publishToQueue", s.pc) IN
         IF pub = "throws" THEN Catch(s1, ep, 5, emc)
         ELSE LET s2 == IF pub = "lost"
                        THEN [s1 EXCEPT !.fallos = @ \cup {"publishToQueue"}] ELSE s1
              IN IF em \in 3..4
                 THEN Catch(track(s2, "INFO", em - 3), ErrorEmisor, <<5, 6>>[em - 2], emc)
                 ELSE Llamar(Perdida(track(s2, "INFO", 2), em), "save:CONFIRMADA", "confirm")

\* Lines 75-106: bloquearAgenda resolves: ms-agenda locks the slot, which
\* it does only when the slot is free.
BloquearAgendaResuelve(i) ==
    LET s == sagas[i] IN
    /\ s.pc = "lock"
    /\ ~agenda.bloqueado
    /\ agenda' = [bloqueado |-> TRUE, titular |-> i]
    /\ \E em \in Emisiones(4), pub \in {"ok", "lost", "throws"},
          ep \in ErroresDe("publishToQueue"), emc \in Emisiones(2) :
         sagas' = [sagas EXCEPT ![i] =
            Publicar([s EXCEPT !.bloqueoPropio = TRUE], em, pub, ep, emc)]
    /\ UNCHANGED tutorias

\* BloquearAgendaRechaza with a retry: the first rejection of bloquearAgenda
\* is answered by calling it again.
BloquearAgendaRechazaReintenta(i) ==
    LET s == sagas[i] IN
    /\ s.pc = "lock"
    /\ \E e \in ErroresDe("bloquearAgenda"), emc \in Emisiones(2) :
         sagas' = [sagas EXCEPT ![i] =
            IF "bloquearAgenda" \in s.fallos THEN Catch(s, e, 4, emc)
            ELSE Llamar([s EXCEPT !.fallos = @ \cup {e.origin}], "bloquearAgenda", "lock")]
    /\ UNCHANGED <<agenda, tutorias>>

BloquearAgendaRechaza(i) ==
    LET s == sagas[i] IN
    /\ s.pc = "lock"
    /\ \E e \in ErroresDe("bloquearAgenda"), emc \in Emisiones(2) :
         sagas' = [sagas EXCEPT ![i] = Catch(s, e, 4, emc)]
    /\ UNCHANGED <<agenda, tutorias>>

\* Lines 106-110: the CONFIRMADA save resolves; track, inside the try block,
\* and return.
SaveConfirmadaResuelve(i) ==
    LET s == sagas[i] IN
    /\ s.pc = "confirm"
    /\ tutorias' = Actualizar(s.nuevaTutoria, "CONFIRMADA", Null)
    /\ \E em \in Emisiones(1), emc \in Emisiones(2) :
         sagas' = [sagas EXCEPT ![i] =
            IF em = 0
            THEN Terminar(Perdida(track(s, "INFO", 1), em),
                          Retorno(s.nuevaTutoria, "CONFIRMADA"))
            ELSE Catch(s, ErrorEmisor, 6, emc)]
    /\ UNCHANGED agenda

SaveConfirmadaRechaza(i) ==
    LET s == sagas[i] IN
    /\ s.pc = "confirm"
    /\ \E e \in ErroresDe("save:CONFIRMADA"), emc \in Emisiones(2) :
         sagas' = [sagas EXCEPT ![i] = Catch(s, e, 6, emc)]
    /\ UNCHANGED <<agenda, tutorias>>

\* Lines 140-169, after the inner try/catch around cancelarBloqueo: when a
\* record was created, track and the call of the FALLIDA save; otherwise
\* the final throw.  t: publishTrackingEvent throws in that track.
TrasCancelar(r, t) ==
    IF r.raised THEN Terminar(r.s, ErrorCrudo(ErrorEmisor))
    ELSE IF r.s.nuevaTutoria = NoTutoria THEN Terminar(r.s, ErrorFinal(r.s.error))
    ELSE IF t THEN Terminar([r.s EXCEPT !.fallos = @ \cup {EMISOR}], ErrorCrudo(ErrorEmisor))
    ELSE Llamar(track(r.s, "ERROR", 1), "save:FALLIDA", "markFailed")

\* Lines 123-149: cancelarBloqueo resolves: ms-agenda releases the lock of
\* the slot (the call names the tutor, the start and the duration only).
CancelarBloqueoResuelve(i) ==
    LET s == sagas[i] IN
    /\ s.pc = "unlock"
    /\ agenda' = [bloqueado |-> FALSE, titular |-> "nadie"]
    /\ \E t1, t2, t3 \in BOOLEAN :
         sagas' = [sagas EXCEPT ![i] =
            TrasCancelar(TryTrack(s, TRUE, t1, t2), t3)]
    /\ UNCHANGED tutorias

CancelarBloqueoRechaza(i) ==
    LET s == sagas[i] IN
    /\ s.pc = "unlock"
    /\ \E e \in ErroresDe("cancelarBloqueo"), t2, t3 \in BOOLEAN :
         sagas' = [sagas EXCEPT ![i] =
            TrasCancelar(TryTrack([s EXCEPT !.fallos = @ \cup {e.origin}],
                                  FALSE, FALSE, t2), t3)]
    /\ UNCHANGED <<agenda, tutorias>>

\* Lines 163-169, after the inner try/catch around the FALLIDA save.
TrasFallida(r) ==
    IF r.raised THEN Terminar(r.s, ErrorCrudo(ErrorEmisor))
    ELSE Terminar(r.s, ErrorFinal(r.s.error))

\* SaveFallidaResuelve with the estado of the payload of line 151 mistaken.
SaveFallidaResuelveOtroEstado(i) ==
    LET s == sagas[i] IN
    /\ s.pc = "markFailed"
    /\ tutorias' = Actualizar(s.nuevaTutoria, "PENDIENTE", s.error.message)
    /\ \E t1, t2 \in BOOLEAN :
         sagas' = [sagas EXCEPT ![i] = TrasFallida(TryTrack(s, TRUE, t1, t2))]
    /\ UNCHANGED agenda

\* Lines 149-169: the FALLIDA save resolves.
SaveFallidaResuelve(i) ==
    LET s == sagas[i] IN
    /\ s.pc = "markFailed"
    /\ tutorias' = Actualizar(s.nuevaTutoria, "FALLIDA", s.error.message)
    /\ \E t1, t2 \in BOOLEAN :
         sagas' = [sagas EXCEPT ![i] = TrasFallida(TryTrack(s, TRUE, t1, t2))]
    /\ UNCHANGED agenda

SaveFallidaRechaza(i) ==
    LET s == sagas[i] IN
    /\ s.pc = "markFailed"
    /\ \E e \in ErroresDe("save:FALLIDA"), t2 \in BOOLEAN :
         sagas' = [sagas EXCEPT ![i] =
            TrasFallida(TryTrack([s EXCEPT !.fallos = @ \cup {e.origin}],
                                 FALSE, FALSE, t2))]
    /\ UNCHANGED <<agenda, tutorias>>

-----------------------------------------------------------------------------
Next ==
    \E i \in Invs :
        \/ Solicitar(i)
        \/ \E quien \in {"estudiante", "tutor"} :
              GetUsuarioResuelve(i, quien) \/ GetUsuarioRechaza(i, quien)
        \/ VerificarDisponibilidadResuelve(i)
        \/ VerificarDisponibilidadRechaza(i)
        \/ SavePendienteResuelve(i)
        \/ SavePendienteRechaza(i)
        \/ BloquearAgendaResuelve(i)
        \/ BloquearAgendaRechaza(i)
        \/ SaveConfirmadaResuelve(i)
        \/ SaveConfirmadaRechaza(i)
        \/ CancelarBloqueoResuelve(i)
        \/ CancelarBloqueoRechaza(i)
        \/ SaveFallidaResuelve(i)
        \/ SaveFallidaRechaza(i)

Spec == Init /\ [][Next]_vars

-----------------------------------------------------------------------------
\* Vocabulary of the properties.

Hecha(s) == s.pc = "done"

Veces(s, nombre) == Cardinality({k \in DOMAIN s.calls : s.calls[k] = nombre})

Llamo(s, nombre) == \E k \in DOMAIN s.calls : s.calls[k] = nombre

\* publishTrackingEvent never threw in the invocation.
EmisorFiable(s) == EMISOR \notin s.fallos

\* The invocation ended with the throw of lines 166-169.
LanzaErrorFinal(s) ==
    /\ s.result.kind = "throw"
    /\ s.result.prefix = "No se pudo completar la solicitud: "

\* C1 (P3, no lock on early failure): an invocation that fails at step 1
\* (identity lookup), 2 (availability) or 3 (creation of the PENDIENTE
\* record) calls neither bloquearAgenda nor cancelarBloqueo, its rollback
\* included.
C1_SinAgendaEnFalloTemprano ==
    \A i \in Invs : LET s == sagas[i] IN
        (s.failStep \in 1..3 /\ s.error.origin # EMISOR)
            => (~Llamo(s, "bloquearAgenda") /\ ~Llamo(s, "cancelarBloqueo"))

\* C2 (P2, compensation completeness): an invocation whose bloquearAgenda
\* succeeded and in which a later step failed has called cancelarBloqueo
\* exactly once when it ends.
C2_DesbloqueoUnaVez ==
    \A i \in Invs : LET s == sagas[i] IN
        (Hecha(s) /\ s.bloqueoPropio /\ s.failStep # 0)
            => Veces(s, "cancelarBloqueo") = 1

\* The same, for the invocations in which publishTrackingEvent did not throw
\* inside the catch block (the final throw of lines 166-169 was reached).
DesbloqueoUnaVezSiLanzaErrorFinal ==
    \A i \in Invs : LET s == sagas[i] IN
        (Hecha(s) /\ s.bloqueoPropio /\ s.failStep # 0 /\ LanzaErrorFinal(s))
            => Veces(s, "cancelarBloqueo") = 1

\* C3 (P5, publish non-fatal): when publishToQueue is the only collaborator
\* call that failed, no compensation runs, the CONFIRMADA save is made and
\* the invocation returns the CONFIRMADA record.
C3_PublicacionNoFatal ==
    \A i \in Invs : LET s == sagas[i] IN
        (Hecha(s) /\ s.fallos = {"publishToQueue"})
            => /\ s.result = Retorno(s.nuevaTutoria, "CONFIRMADA")
               /\ Llamo(s, "save:CONFIRMADA")
               /\ ~Llamo(s, "cancelarBloqueo")
               /\ ~Llamo(s, "save:FALLIDA")

\* The part of C3 the code keeps: a publishToQueue that returns, although
\* the message was not published, does not abort the saga.
PublicacionPerdidaNoFatal ==
    \A i \in Invs : LET s == sagas[i] IN
        (Hecha(s) /\ s.fallos = {"publishToQueue"} /\ s.failStep = 0)
            => /\ s.result = Retorno(s.nuevaTutoria, "CONFIRMADA")
               /\ ~Llamo(s, "cancelarBloqueo")

\* C4 (P1, terminality): a record only moves PENDIENTE -> CONFIRMADA or
\* PENDIENTE -> FALLIDA, and no save is issued for a record that a save has
\* already put in CONFIRMADA or FALLIDA.
C4_Terminalidad ==
    /\ \A id \in DOMAIN tutorias :
          tutorias[id].historial \in {<<"PENDIENTE">>, <<"PENDIENTE", "CONFIRMADA">>,
                                      <<"PENDIENTE", "FALLIDA">>}
    /\ \A i \in Invs : LET s == sagas[i] IN
          s.pc \in {"confirm", "markFailed"} => tutorias[s.nuevaTutoria].estado = "PENDIENTE"

\* The same, for the records of invocations in which publishTrackingEvent
\* never threw.
TerminalidadConEmisorFiable ==
    \A i \in Invs : LET s == sagas[i] IN
        (EmisorFiable(s) /\ s.nuevaTutoria # NoTutoria)
            => /\ tutorias[s.nuevaTutoria].historial \in
                     {<<"PENDIENTE">>, <<"PENDIENTE", "CONFIRMADA">>, <<"PENDIENTE", "FALLIDA">>}
               /\ s.pc \in {"confirm", "markFailed"}
                     => tutorias[s.nuevaTutoria].estado = "PENDIENTE"

\* C5 (P6, compensation isolation): when cancelarBloqueo and the FALLIDA save
\* both failed, the invocation ends with the error built from the original
\* failure: statusCode and message come from the error caught at line 112.
C5_ErrorOriginal ==
    \A i \in Invs : LET s == sagas[i] IN
        (Hecha(s) /\ {"cancelarBloqueo", "save:FALLIDA"} \subseteq s.fallos)
            => /\ LanzaErrorFinal(s)
               /\ s.error.origin \notin {"cancelarBloqueo", "save:FALLIDA"}
               /\ s.result.statusCode = StatusCodeOr500(s.error.statusCode)
               /\ s.result.message = Interpolar(s.error.message)

\* The same, for the invocations in which publishTrackingEvent threw in
\* neither of the two inner catch blocks.
ErrorOriginalSiLanzaErrorFinal ==
    \A i \in Invs : LET s == sagas[i] IN
        (Hecha(s) /\ {"cancelarBloqueo", "save:FALLIDA"} \subseteq s.fallos
                  /\ LanzaErrorFinal(s))
            => /\ s.error.origin \notin {"cancelarBloqueo", "save:FALLIDA"}
               /\ s.result.statusCode = StatusCodeOr500(s.error.statusCode)
               /\ s.result.message = Interpolar(s.error.message)

\* C6 (P4, error fidelity): the statusCode of the error raised to the caller
\* is 404 when the student or the tutor is missing, 409 when the slot is not
\* available, and 500 for every failure of a collaborator call, whatever
\* the fields of the collaborator's error object.
C6_FidelidadDelError ==
    \A i \in Invs : LET s == sagas[i] IN
        (Hecha(s) /\ s.result.kind = "throw" /\ EmisorFiable(s))
            => /\ s.error \in {EstudianteNoEncontrado, TutorNoEncontrado}
                     => s.result.statusCode = 404
               /\ s.error = HorarioNoDisponible => s.result.statusCode = 409
               /\ s.error.origin # APP => s.result.statusCode = 500

\* C7 (scenario D): the PENDIENTE record was created and bloquearAgenda
\* fails, every other call succeeding: the error raised has statusCode 500,
\* the record is FALLIDA with the message of the lock failure as its error,
\* and cancelarBloqueo is not called.
C7_FalloDeBloqueo ==
    \A i \in Invs : LET s == sagas[i] IN
        (Hecha(s) /\ s.fallos = {"bloquearAgenda"})
            => /\ s.result.kind = "throw"
               /\ s.result.statusCode = 500
               /\ tutorias[s.nuevaTutoria].estado = "FALLIDA"
               /\ tutorias[s.nuevaTutoria].error = s.error.message
               /\ ~Llamo(s, "cancelarBloqueo")

\* The part of C7 the code keeps.
FalloDeBloqueoMarcaFallida ==
    \A i \in Invs : LET s == sagas[i] IN
        (Hecha(s) /\ s.fallos = {"bloquearAgenda"})
            => /\ LanzaErrorFinal(s)
               /\ s.error.origin = "bloquearAgenda"
               /\ tutorias[s.nuevaTutoria].estado = "FALLIDA"
               /\ tutorias[s.nuevaTutoria].error = s.error.message

CallsDeAgenda == {"verificarDisponibilidad", "bloquearAgenda", "cancelarBloqueo"}

CallsDeSave == {"save:PENDIENTE", "save:CONFIRMADA", "save:FALLIDA"}

\* C8 (scenario B): the student exists and the tutor lookup yields no tutor:
\* the error raised has statusCode 404 and the message of the missing tutor,
\* and the invocation makes no call to ms-agenda and no save.
C8_TutorDesconocido ==
    \A i \in Invs : LET s == sagas[i] IN
        (s.estudiante = "user" /\ s.tutor = "null" /\ s.error = TutorNoEncontrado)
            => /\ \A k \in DOMAIN s.calls : s.calls[k] \notin CallsDeAgenda \cup CallsDeSave
               /\ Hecha(s) => /\ s.result.kind = "throw"
                              /\ s.result.statusCode = 404
                              /\ s.result.message = "Tutor no encontrado"

\* C9 (rollback (c), scenario E): when a record was created and a later step
\* aborted the saga, the FALLIDA save is called exactly once, with the
\* message of the original failure as error; when no record was created it
\* is not called.  When the lock succeeded and the CONFIRMADA save failed,
\* cancelarBloqueo is called and the error raised carries the message of the
\* save failure.
C9_MarcaFallida ==
    \A i \in Invs : LET s == sagas[i] IN
        (Hecha(s) /\ s.failStep # 0)
            => /\ s.nuevaTutoria = NoTutoria => Veces(s, "save:FALLIDA") = 0
               /\ s.nuevaTutoria # NoTutoria
                     => /\ Veces(s, "save:FALLIDA") = 1
                        /\ "save:FALLIDA" \notin s.fallos
                              => /\ tutorias[s.nuevaTutoria].estado = "FALLIDA"
                                 /\ tutorias[s.nuevaTutoria].error = s.error.message
               /\ (s.bloqueoPropio /\ s.error.origin = "save:CONFIRMADA")
                     => /\ Llamo(s, "cancelarBloqueo")
                        /\ LanzaErrorFinal(s)
                        /\ s.result.message = Interpolar(s.error.message)

\* The same, for the invocations that reached the final throw.
MarcaFallidaSiLanzaErrorFinal ==
    \A i \in Invs : LET s == sagas[i] IN
        (Hecha(s) /\ s.failStep # 0 /\ LanzaErrorFinal(s))
            => /\ s.nuevaTutoria = NoTutoria => Veces(s, "save:FALLIDA") = 0
               /\ s.nuevaTutoria # NoTutoria
                     => /\ Veces(s, "save:FALLIDA") = 1
                        /\ "save:FALLIDA" \notin s.fallos
                              => /\ tutorias[s.nuevaTutoria].estado = "FALLIDA"
                                 /\ tutorias[s.nuevaTutoria].error = s.error.message
               /\ (s.bloqueoPropio /\ s.error.origin = "save:CONFIRMADA")
                     => /\ Llamo(s, "cancelarBloqueo")
                        /\ s.result.message = Interpolar(s.error.message)

\* The runs in which every collaborator call, publishTrackingEvent included,
\* succeeds: the calls made and the result, by the answers of the lookups
\* and of the availability check.
CallsLookup == <<"getUsuario:estudiantes", "getUsuario:tutores">>

SinFallos ==
    {[calls |-> CallsLookup \o <<"verificarDisponibilidad", "save:PENDIENTE", "bloquearAgenda",
                                 "publishToQueue", "save:CONFIRMADA">>,
      kind |-> "return", statusCode |-> NoStatusCode, message |-> Undefined],
     [calls |-> CallsLookup \o <<"cancelarBloqueo">>,
      kind |-> "throw", statusCode |-> 404, message |-> "Estudiante no encontrado"],
     [calls |-> CallsLookup \o <<"cancelarBloqueo">>,
      kind |-> "throw", statusCode |-> 404, message |-> "Tutor no encontrado"],
     [calls |-> CallsLookup \o <<"verificarDisponibilidad", "cancelarBloqueo">>,
      kind |-> "throw", statusCode |-> 409, message |-> "Horario no disponible"]}

\* C10 (tracking is fire-and-forget): a failure of publishTrackingEvent does
\* not change the outcome: an invocation in which nothing else failed makes
\* the calls and ends with the result of a run in which no emission fails.
C10_EmisorSinEfecto ==
    \A i \in Invs : LET s == sagas[i] IN
        (Hecha(s) /\ s.fallos \subseteq {EMISOR})
            => [calls |-> s.calls, kind |-> s.result.kind,
                statusCode |-> s.result.statusCode, message |-> s.result.message] \in SinFallos

\* SinFallos is what the code does when publishTrackingEvent never throws.
SinFallosConEmisorFiable ==
    \A i \in Invs : LET s == sagas[i] IN
        (Hecha(s) /\ s.fallos = {})
            => [calls |-> s.calls, kind |-> s.result.kind,
                statusCode |-> s.result.statusCode, message |-> s.result.message] \in SinFallos

C12_ResultadoClasificado ==
    \A i \in Invs : LET s == sagas[i] IN
        Hecha(s)
            => \/ /\ s.result = Retorno(s.nuevaTutoria, "CONFIRMADA")
                  /\ s.failStep = 0
               \/ /\ LanzaErrorFinal(s)
                  /\ s.result.statusCode # NoStatusCode
                  /\ s.result.message = Interpolar(s.error.message)
                  /\ s.failStep # 0

\* The same, for the invocations in which publishTrackingEvent never threw.
ResultadoClasificadoConEmisorFiable ==
    \A i \in Invs : LET s == sagas[i] IN
        (Hecha(s) /\ EmisorFiable(s))
            => \/ /\ s.result = Retorno(s.nuevaTutoria, "CONFIRMADA")
                  /\ s.failStep = 0
               \/ /\ LanzaErrorFinal(s)
                  /\ s.result.statusCode # NoStatusCode
                  /\ s.result.message = Interpolar(s.error.message)
                  /\ s.failStep # 0

\* The invocation returned and no collaborator call of it failed.
TodoBien(s) == Hecha(s) /\ s.fallos = {} /\ s.result.kind = "return"

\* C13 as stated (scenario A): when every collaborator call succeeds the
\* invocation returns the CONFIRMADA record after exactly 6 events with
\* status INFO and none with status ERROR.
C13_SeisEventosInfo ==
    \A i \in Invs : LET s == sagas[i] IN
        TodoBien(s)
            => /\ s.result = Retorno(s.nuevaTutoria, "CONFIRMADA")
               /\ s.infoEvents = 6
               /\ s.errorEvents = 0

\* C13 amended: the invocation returns the CONFIRMADA record after exactly 12
\* events with status INFO (two track calls per step: lines 27, 36, 41, 46,
\* 51, 62, 67, 77, 82, 93, 98, 108) and none with status ERROR.
C13_DoceEventosInfo ==
    \A i \in Invs : LET s == sagas[i] IN
        TodoBien(s)
            => /\ s.result = Retorno(s.nuevaTutoria, "CONFIRMADA")
               /\ tutorias[s.nuevaTutoria].estado = "CONFIRMADA"
               /\ s.infoEvents = 12
               /\ s.errorEvents = 0

C13_Witness ==
    \E i \in Invs : LET s == sagas[i] IN
        TodoBien(s) /\ s.estudiante = "user" /\ s.tutor = "user" /\ s.disponible = "true"

\* The calls of the forward steps, in the order of the try block.
CallsAvance ==
    CallsLookup \o <<"verificarDisponibilidad", "save:PENDIENTE", "bloquearAgenda",
                     "publishToQueue", "save:CONFIRMADA">>

EsAvance(nombre) == \E k \in DOMAIN CallsAvance : CallsAvance[k] = nombre

EsPrefijo(a, b) == Len(a) <= Len(b) /\ \A k \in DOMAIN a : a[k] = b[k]

\* C14 (forward steps strictly sequential): the forward calls are made in
\* the order of the try block, none skipped; verificarDisponibilidad is
\* called only after both lookups returned a user, the PENDIENTE save only
\* after the slot was found available, bloquearAgenda only after the record
\* was created, publishToQueue only after the lock was obtained, and the
\* CONFIRMADA save only after the lock was obtained and publishToQueue called.
C14_PasosEnOrden ==
    \A i \in Invs : LET s == sagas[i] IN
        /\ EsPrefijo(SelectSeq(s.calls, EsAvance), CallsAvance)
        /\ Llamo(s, "verificarDisponibilidad") => (s.estudiante = "user" /\ s.tutor = "user")
        /\ Llamo(s, "save:PENDIENTE") => s.disponible = "true"
        /\ Llamo(s, "bloquearAgenda") => s.nuevaTutoria # NoTutoria
        /\ Llamo(s, "publishToQueue") => s.bloqueoPropio
        /\ Llamo(s, "save:CONFIRMADA") => (s.bloqueoPropio /\ Llamo(s, "publishToQueue"))

\* An invocation that went through every forward step, one in which
\* publishToQueue did not publish.
C14_Witness ==
    \E i \in Invs : LET s == sagas[i] IN
        /\ SelectSeq(s.calls, EsAvance) = CallsAvance
        /\ "publishToQueue" \in s.fallos
        /\ s.pc = "confirm"

Pendiente(s) == s.estudiante = "pending" \/ s.tutor = "pending"

\* C15 as stated (the lookups are a join): the failure path of step 1 begins
\* only after both lookups completed: no lookup is still pending once the
\* error was caught at line 112.
C15_AmbasObservadas ==
    \A i \in Invs : LET s == sagas[i] IN
        s.failStep # 0 => ~Pendiente(s)

\* C15 amended: both lookups are started together; the invocation goes on to
\* step 2, or raises the 404 of a missing user, only after both lookups
\* resolved; when a lookup rejects, the failure path begins at once: the
\* other lookup may still be pending and its outcome is dropped.
C15_JoinSalvoRechazo ==
    \A i \in Invs : LET s == sagas[i] IN
        /\ (s.estudiante = "none") <=> (s.tutor = "none")
        /\ s.pc = "lookup" => (Pendiente(s) /\ s.failStep = 0)
        /\ Llamo(s, "verificarDisponibilidad") => (s.estudiante = "user" /\ s.tutor = "user")
        /\ (s.failStep # 0 /\ s.error \in {EstudianteNoEncontrado, TutorNoEncontrado})
              => ~Pendiente(s)
        /\ (s.pc # "lookup" /\ Pendiente(s))
              => /\ s.error.origin \in {"getUsuario:estudiantes", "getUsuario:tutores"}
                 /\ s.failStep = 1
                 /\ "rejected" \in {s.estudiante, s.tutor}

\* The rollback of a rejected lookup has called cancelarBloqueo while the
\* other lookup is still pending.
C15_Witness ==
    \E i \in Invs : LET s == sagas[i] IN
        /\ s.estudiante = "rejected" /\ s.tutor = "pending"
        /\ Llamo(s, "cancelarBloqueo")

\* C16 (rollback in reverse order, each reversal isolated): the FALLIDA save
\* is called only after cancelarBloqueo was called, and a failure of
\* cancelarBloqueo does not keep the FALLIDA save of a created record from
\* being called.
C16_RollbackAislado ==
    \A i \in Invs : LET s == sagas[i] IN
        /\ \A k \in DOMAIN s.calls :
              s.calls[k] = "save:FALLIDA"
                  => \E j \in 1..(k - 1) : s.calls[j] = "cancelarBloqueo"
        /\ (Hecha(s) /\ "cancelarBloqueo" \in s.fallos /\ s.nuevaTutoria # NoTutoria)
              => Llamo(s, "save:FALLIDA")

\* The same, for the invocations that reached the final throw.
RollbackAisladoSiLanzaErrorFinal ==
    \A i \in Invs : LET s == sagas[i] IN
        /\ \A k \in DOMAIN s.calls :
              s.calls[k] = "save:FALLIDA"
                  => \E j \in 1..(k - 1) : s.calls[j] = "cancelarBloqueo"
        /\ (Hecha(s) /\ "cancelarBloqueo" \in s.fallos /\ s.nuevaTutoria # NoTutoria
                     /\ LanzaErrorFinal(s))
              => Llamo(s, "save:FALLIDA")

CallsTodas ==
    {"getUsuario:estudiantes", "getUsuario:tutores", "publishToQueue"}
        \cup CallsDeAgenda \cup CallsDeSave

\* C17 (no retry): within one invocation every collaborator call is made at
\* most once: each lookup, the availability check, the lock, the unlock, the
\* publish, and each of the three saves.
C17_SinReintentos ==
    \A i \in Invs : LET s == sagas[i] IN
        /\ \A k \in DOMAIN s.calls : s.calls[k] \in CallsTodas
        /\ \A nombre \in CallsTodas : Veces(s, nombre) <= 1

\* An invocation in which bloquearAgenda, cancelarBloqueo and the FALLIDA save
\* all failed has ended.
C17_Witness ==
    \E i \in Invs : LET s == sagas[i] IN
        /\ Hecha(s)
        /\ {"bloquearAgenda", "cancelarBloqueo", "save:FALLIDA"} \subseteq s.fallos

\* C18 (error detail iff FALLIDA): a record of the repository has an error
\* detail (a value other than null or undefined) exactly when its estado is
\* FALLIDA, whatever error the failing step raised.
C18_ErrorSiiFallida ==
    \A id \in DOMAIN tutorias :
        (tutorias[id].error \notin {Null, Undefined}) <=> (tutorias[id].estado = "FALLIDA")

\* What the code keeps: the PENDIENTE and CONFIRMADA saves leave the error
\* null, and the FALLIDA save stores error.message of the caught error,
\* which is undefined when that error object has no message.
ErrorDeFallidaEsElMensaje ==
    \A i \in Invs : LET s == sagas[i] IN
        s.nuevaTutoria # NoTutoria
            => LET r == tutorias[s.nuevaTutoria] IN
               /\ r.estado # "FALLIDA" => r.error = Null
               /\ r.estado = "FALLIDA" => r.error = s.error.message

\* C19 (concurrent invocations on the same slot): an invocation that fails
\* never releases the lock another invocation obtained: the slot locked by
\* an invocation that returned the CONFIRMADA record stays locked for it.
\* Stated for the runs in which neither publishTrackingEvent nor
\* publishToQueue threw.
C19_BloqueoAjenoIntacto ==
    (\A j \in Invs : sagas[j].fallos \cap {EMISOR, "publishToQueue"} = {})
        => \A i \in Invs : LET s == sagas[i] IN
              s.result.kind = "return" => (agenda.bloqueado /\ agenda.titular = i)

\* What the code keeps: the invocation that returned never called
\* cancelarBloqueo itself, so its lock was released, if at all, by the
\* cancelarBloqueo of another invocation.
BloqueoSoltadoPorOtra ==
    \A i \in Invs : LET s == sagas[i] IN
        s.result.kind = "return"
            => /\ s.bloqueoPropio /\ ~Llamo(s, "cancelarBloqueo")
               /\ ~(agenda.bloqueado /\ agenda.titular = i)
                     => \E j \in Invs \ {i} : Llamo(sagas[j], "cancelarBloqueo")

\* cancelarBloqueo of the invocation was called and resolved.
Desbloqueo(s) ==
    /\ Llamo(s, "cancelarBloqueo") /\ "cancelarBloqueo" \notin s.fallos
    /\ s.pc # "unlock"

\* The FALLIDA save of the invocation was called and resolved.
MarcoFallida(s) ==
    /\ Llamo(s, "save:FALLIDA") /\ "save:FALLIDA" \notin s.fallos
    /\ s.pc # "markFailed"

\* C20 (record and lock agree when an invocation ends): an invocation that
\* returns obtained its lock and called no cancelarBloqueo; one that raises an
\* error after its cancelarBloqueo resolved, or without having obtained the
\* lock, holds no lock, and its record is FALLIDA if its FALLIDA save
\* resolved; a CONFIRMADA record whose lock is released, and a FALLIDA record
\* whose lock is held, exist only when cancelarBloqueo itself failed.
\* Stated for the runs in which neither publishTrackingEvent nor
\* publishToQueue threw.
C20_RegistroYBloqueoDeAcuerdo ==
    (\A j \in Invs : sagas[j].fallos \cap {EMISOR, "publishToQueue"} = {})
        => \A i \in Invs : LET s == sagas[i] IN
              Hecha(s)
                 => /\ s.result.kind = "return"
                          => (s.bloqueoPropio /\ ~Llamo(s, "cancelarBloqueo"))
                    /\ (s.result.kind = "throw" /\ (Desbloqueo(s) \/ ~s.bloqueoPropio))
                          => /\ agenda.titular # i
                             /\ MarcoFallida(s) => tutorias[s.nuevaTutoria].estado = "FALLIDA"
                    /\ s.nuevaTutoria # NoTutoria
                          => LET r == tutorias[s.nuevaTutoria] IN
                             /\ (r.estado = "CONFIRMADA" /\ agenda.titular # i)
                                   => "cancelarBloqueo" \in s.fallos
                             /\ (r.estado = "FALLIDA" /\ agenda.titular = i)
                                   => "cancelarBloqueo" \in s.fallos

\* What the code keeps, in every run: the part of C20 that looks at the calls
\* of the invocation itself.
RegistroYBloqueoPropios ==
    \A i \in Invs : LET s == sagas[i] IN
        Hecha(s)
           => /\ s.result.kind = "return"
                    => (s.bloqueoPropio /\ ~Llamo(s, "cancelarBloqueo"))
              /\ (s.result.kind = "throw" /\ (Desbloqueo(s) \/ ~s.bloqueoPropio))
                    => /\ agenda.titular # i
                       /\ MarcoFallida(s) => tutorias[s.nuevaTutoria].estado = "FALLIDA"
              /\ (s.nuevaTutoria # NoTutoria
                    /\ tutorias[s.nuevaTutoria].estado = "FALLIDA" /\ agenda.titular = i)
                    => "cancelarBloqueo" \in s.fallos
====
